---- MODULE Spec2Model ----
(***************************************************************************)
(* State machine of the BFS visualisation component (src/src/App.tsx):     *)
(* the graph the user draws, the traversal state and the narration call.   *)
(* One action per event handler; a click is rendered synchronously, so the *)
(* effects React runs after it are part of the handler's action.  The      *)
(* interval callback only queues its two updates: React renders them in a  *)
(* later task and runs the effects of that render in a task after it; a    *)
(* click, or the interval again, may come in between.                      *)
(***************************************************************************)
EXTENDS Integers, Sequences, FiniteSets

\* ---------------------------------------------------------------- bounds
\* Spec: every graph of at most MaxNodes nodes and MaxEdges edges.
MaxNodes == 2
MaxEdges == 2
\* narration calls that may be in flight at once
MaxInflight == 1
\* SpecExample starts from the 4-node, 3-edge example graph and may grow it to
\* ExMaxNodes nodes and ExMaxEdges edges.
ExMaxNodes == 5
ExMaxEdges == 3

\* ------------------------------------------------------------ vocabulary
\* JavaScript null (startNode, selectedNode); no node id is this string.
Null == "null"

\* the text shown when the narration call throws (App.tsx line 92)
Fallback == "Unable to generate explanation at this time."

\* texts the external model may answer with (response.text(), line 89)
Responses == {"generated explanation"}

\* canvas coordinates a click may carry (clientX - rect.left, lines 113-114)
Coords == {10}

Digit(d) == <<"0", "1", "2", "3", "4", "5", "6", "7", "8", "9">>[d + 1]

\* `${n}`: the decimal string of a positive integer (line 116)
RECURSIVE ToString(_)
ToString(n) == IF n < 10 THEN Digit(n) ELSE ToString(n \div 10) \o Digit(n % 10)

VARIABLES
    nodes,          \* Node[]: sequence of [id, x, y]              (line 23)
    edges,          \* Edge[]: sequence of [from, to]              (line 24)
    selectedNode,   \* pending selection: an id or Null            (line 25)
    visitedNodes,   \* sequence of ids                             (line 26)
    currentQueue,   \* sequence of ids                             (line 27)
    isRunning,      \* BOOLEAN                                     (line 28)
    startNode,      \* an id or Null                               (line 29)
    explanation,    \* the narration text                          (line 30)
    pendingCalls,   \* generateExplanation calls awaiting the external model
    queuedStep,     \* <<>> or <<[queue, visited]>>: the setCurrentQueue and
                    \* setVisitedNodes updates of an interval callback that
                    \* React has not rendered yet              (lines 158-159)
    pendingEffects, \* <<>> or <<[queue, visited]>>: the effects of the last
                    \* render of a step have not run yet; the record holds
                    \* currentQueue and visitedNodes of the render before it,
                    \* which the interval still alive reads (lines 96-100,
                    \* 162-168)
    lastOp,         \* history: the handler that ran last
    lastArg,        \* history: the node id it was given, or Null
    steps,          \* history: steps rendered since setStart
    edgesAtStart    \* history: Len(edges) when the start node was chosen

vars == <<nodes, edges, selectedNode, visitedNodes, currentQueue, isRunning,
          startNode, explanation, pendingCalls, queuedStep, pendingEffects,
          lastOp, lastArg, steps, edgesAtStart>>

NodeIds == {nodes[i].id : i \in 1..Len(nodes)}

Includes(seq, v) == \E i \in 1..Len(seq) : seq[i] = v

Init ==
    /\ nodes = <<>>
    /\ edges = <<>>
    /\ selectedNode = Null
    /\ visitedNodes = <<>>
    /\ currentQueue = <<>>
    /\ isRunning = FALSE
    /\ startNode = Null
    /\ explanation = ""
    /\ pendingCalls = 0
    /\ queuedStep = <<>>
    /\ pendingEffects = <<>>
    /\ lastOp = "init"
    /\ lastArg = Null
    /\ steps = 0
    /\ edgesAtStart = 0

\* ------------------------------------------------------------ narration
\* The calls in flight once the effects still pending have run: React runs
\* them before it renders anything else, and the effect of lines 96-100 then
\* issues the call for the step last rendered.
FlushPassive ==
    IF pendingEffects # <<>> /\ Len(visitedNodes) > 0
    THEN pendingCalls + 1
    ELSE pendingCalls

\* useEffect on [visitedNodes, currentQueue] (lines 96-100) with the early
\* return of generateExplanation (line 65): one call is issued after a handler
\* that assigned visitedNodes or currentQueue, when the new visitedNodes is
\* not empty.
NarrationEffect(newVisited, assigned) ==
    IF assigned /\ Len(newVisited) > 0 THEN FlushPassive + 1 ELSE FlushPassive

\* generateExplanation's await resolves (lines 87-89)
NarrationSucceeds ==
    /\ pendingCalls > 0
    /\ \E text \in Responses : explanation' = text
    /\ pendingCalls' = pendingCalls - 1
    /\ lastOp' = "narrationOk"
    /\ lastArg' = Null
    /\ UNCHANGED <<nodes, edges, selectedNode, visitedNodes, currentQueue,
                   isRunning, startNode, queuedStep, pendingEffects, steps,
                   edgesAtStart>>

\* variant: a failed narration call also stops the run
NarrationFails_StopsRun ==
    /\ pendingCalls > 0
    /\ explanation' = Fallback
    /\ pendingCalls' = pendingCalls - 1
    /\ isRunning' = FALSE
    /\ lastOp' = "narrationFail"
    /\ lastArg' = Null
    /\ UNCHANGED <<nodes, edges, selectedNode, visitedNodes, currentQueue,
                   startNode, queuedStep, pendingEffects, steps, edgesAtStart>>

\* generateExplanation's try block throws (lines 90-93)
NarrationFails ==
    /\ pendingCalls > 0
    /\ explanation' = Fallback
    /\ pendingCalls' = pendingCalls - 1
    /\ lastOp' = "narrationFail"
    /\ lastArg' = Null
    /\ UNCHANGED <<nodes, edges, selectedNode, visitedNodes, currentQueue,
                   isRunning, startNode, queuedStep, pendingEffects, steps,
                   edgesAtStart>>

\* ---------------------------------------------------------------- reset
\* variant: the narration text survives a reset
resetVisualization_KeepsText ==
    /\ visitedNodes' = <<>>
    /\ currentQueue' = <<>>
    /\ isRunning' = FALSE
    /\ startNode' = Null
    /\ explanation' = explanation
    /\ pendingCalls' = NarrationEffect(<<>>, TRUE)
    /\ pendingEffects' = <<>>
    /\ queuedStep' = <<>>
    /\ lastOp' = "reset"
    /\ lastArg' = Null
    /\ steps' = 0
    /\ edgesAtStart' = 0
    /\ UNCHANGED <<nodes, edges, selectedNode>>

\* variant: the start node survives a reset
resetVisualization_KeepsStart ==
    /\ visitedNodes' = <<>>
    /\ currentQueue' = <<>>
    /\ isRunning' = FALSE
    /\ startNode' = startNode
    /\ explanation' = ""
    /\ pendingCalls' = NarrationEffect(<<>>, TRUE)
    /\ pendingEffects' = <<>>
    /\ queuedStep' = <<>>
    /\ lastOp' = "reset"
    /\ lastArg' = Null
    /\ steps' = 0
    /\ edgesAtStart' = 0
    /\ UNCHANGED <<nodes, edges, selectedNode>>

\* Updates an interval callback queued before the click are rendered after
\* it, but React replays the hook's updates in the order they were made: the
\* reset's [] comes last, so that render commits what the reset committed.
resetVisualization ==
    /\ visitedNodes' = <<>>
    /\ currentQueue' = <<>>
    /\ isRunning' = FALSE
    /\ startNode' = Null
    /\ explanation' = ""
    /\ pendingCalls' = NarrationEffect(<<>>, TRUE)
    /\ pendingEffects' = <<>>
    /\ queuedStep' = <<>>
    /\ lastOp' = "reset"
    /\ lastArg' = Null
    /\ steps' = 0
    /\ edgesAtStart' = 0
    /\ UNCHANGED <<nodes, edges, selectedNode>>

\* -------------------------------------------------------------- addNode
\* variant: the identifier is the count before the insertion
addNode_IdFromCount(x, y, maxNodes) ==
    /\ Len(nodes) < maxNodes
    /\ nodes' = Append(nodes, [id |-> ToString(Len(nodes)), x |-> x, y |-> y])
    /\ lastOp' = "addNode"
    /\ lastArg' = Null
    /\ pendingCalls' = FlushPassive
    /\ pendingEffects' = <<>>
    /\ UNCHANGED <<edges, selectedNode, visitedNodes, currentQueue, isRunning,
                   startNode, explanation, queuedStep, steps, edgesAtStart>>

addNode(x, y, maxNodes) ==
    /\ Len(nodes) < maxNodes
    /\ nodes' = Append(nodes, [id |-> ToString(Len(nodes) + 1), x |-> x, y |-> y])
    /\ lastOp' = "addNode"
    /\ lastArg' = Null
    /\ pendingCalls' = FlushPassive
    /\ pendingEffects' = <<>>
    /\ UNCHANGED <<edges, selectedNode, visitedNodes, currentQueue, isRunning,
                   startNode, explanation, queuedStep, steps, edgesAtStart>>

\* ------------------------------------------------------ handleNodeClick
\* the setStart branch (lines 134-138)
setStart(nodeId, maxInflight) ==
    /\ FlushPassive < maxInflight
    /\ startNode' = nodeId
    /\ visitedNodes' = <<nodeId>>
    /\ currentQueue' = <<nodeId>>
    /\ pendingCalls' = NarrationEffect(<<nodeId>>, TRUE)
    /\ pendingEffects' = <<>>
    /\ steps' = 0
    /\ edgesAtStart' = Len(edges)
    /\ UNCHANGED <<edges, selectedNode>>

\* variant: a click while running chooses the start node again
handleNodeClick_Reseeds(nodeId, maxEdges, maxInflight) ==
    /\ lastOp' = "nodeClick"
    /\ lastArg' = nodeId
    /\ UNCHANGED <<nodes, isRunning, explanation, queuedStep>>
    /\ IF ~isRunning
       THEN /\ IF selectedNode = Null
               THEN /\ selectedNode' = nodeId
                    /\ edges' = edges
               ELSE IF selectedNode # nodeId
               THEN /\ Len(edges) < maxEdges
                    /\ edges' = Append(edges, [from |-> selectedNode, to |-> nodeId])
                    /\ selectedNode' = Null
               ELSE /\ selectedNode' = Null
                    /\ edges' = edges
            /\ pendingCalls' = FlushPassive
            /\ pendingEffects' = <<>>
            /\ UNCHANGED <<visitedNodes, currentQueue, startNode, steps,
                           edgesAtStart>>
       ELSE setStart(nodeId, maxInflight)

\* variant: the second click connects without comparing the two nodes
handleNodeClick_SelfLoop(nodeId, maxEdges, maxInflight) ==
    /\ lastOp' = "nodeClick"
    /\ lastArg' = nodeId
    /\ UNCHANGED <<nodes, isRunning, explanation, queuedStep>>
    /\ IF ~isRunning
       THEN /\ IF selectedNode = Null
               THEN /\ selectedNode' = nodeId
                    /\ edges' = edges
               ELSE /\ Len(edges) < maxEdges
                    /\ edges' = Append(edges, [from |-> selectedNode, to |-> nodeId])
                    /\ selectedNode' = Null
            /\ pendingCalls' = FlushPassive
            /\ pendingEffects' = <<>>
            /\ UNCHANGED <<visitedNodes, currentQueue, startNode, steps,
                           edgesAtStart>>
       ELSE IF startNode = Null
       THEN setStart(nodeId, maxInflight)
       ELSE UNCHANGED <<edges, selectedNode, visitedNodes, currentQueue,
                        startNode, pendingCalls, pendingEffects, steps,
                        edgesAtStart>>

\* variant: once a start node is chosen, clicks edit the graph even while running
handleNodeClick_EditsWhileRunning(nodeId, maxEdges, maxInflight) ==
    /\ lastOp' = "nodeClick"
    /\ lastArg' = nodeId
    /\ UNCHANGED <<nodes, isRunning, explanation, queuedStep>>
    /\ IF ~isRunning \/ startNode # Null
       THEN /\ IF selectedNode = Null
               THEN /\ selectedNode' = nodeId
                    /\ edges' = edges
               ELSE IF selectedNode # nodeId
               THEN /\ Len(edges) < maxEdges
                    /\ edges' = Append(edges, [from |-> selectedNode, to |-> nodeId])
                    /\ selectedNode' = Null
               ELSE /\ selectedNode' = Null
                    /\ edges' = edges
            /\ pendingCalls' = FlushPassive
            /\ pendingEffects' = <<>>
            /\ UNCHANGED <<visitedNodes, currentQueue, startNode, steps,
                           edgesAtStart>>
       ELSE setStart(nodeId, maxInflight)

handleNodeClick(nodeId, maxEdges, maxInflight) ==
    /\ lastOp' = "nodeClick"
    /\ lastArg' = nodeId
    /\ UNCHANGED <<nodes, isRunning, explanation, queuedStep>>
    /\ IF ~isRunning
       THEN /\ IF selectedNode = Null
               THEN /\ selectedNode' = nodeId
                    /\ edges' = edges
               ELSE IF selectedNode # nodeId
               THEN /\ Len(edges) < maxEdges
                    /\ edges' = Append(edges, [from |-> selectedNode, to |-> nodeId])
                    /\ selectedNode' = Null
               ELSE /\ selectedNode' = Null
                    /\ edges' = edges
            /\ pendingCalls' = FlushPassive
            /\ pendingEffects' = <<>>
            /\ UNCHANGED <<visitedNodes, currentQueue, startNode, steps,
                           edgesAtStart>>
       ELSE IF startNode = Null
       THEN setStart(nodeId, maxInflight)
       ELSE UNCHANGED <<edges, selectedNode, visitedNodes, currentQueue,
                        startNode, pendingCalls, pendingEffects, steps,
                        edgesAtStart>>

\* ------------------------------------------------- Start/Pause button
toggleRunning ==
    /\ isRunning' = ~isRunning
    /\ pendingCalls' = FlushPassive
    /\ pendingEffects' = <<>>
    /\ lastOp' = "toggle"
    /\ lastArg' = Null
    /\ UNCHANGED <<nodes, edges, selectedNode, visitedNodes, currentQueue,
                   startNode, explanation, queuedStep, steps, edgesAtStart>>

\* ------------------------------------------------------------------ BFS
RECURSIVE MapOther(_, _)
MapOther(es, nodeId) ==
    IF es = <<>> THEN <<>>
    ELSE <<(IF Head(es).from = nodeId THEN Head(es).to ELSE Head(es).from)>>
         \o MapOther(Tail(es), nodeId)

\* variant: an edge is followed only from its from end
getNeighborsIn_FromOnly(es, nodeId) ==
    LET matches(edge) == edge.from = nodeId
    IN  MapOther(SelectSeq(es, matches), nodeId)

getNeighborsIn(es, nodeId) ==
    LET matches(edge) == edge.from = nodeId \/ edge.to = nodeId
    IN  MapOther(SelectSeq(es, matches), nodeId)

getNeighbors(nodeId) == getNeighborsIn(edges, nodeId)

\* variant: the new neighbours go to the front of the queue
performBFSStep_Prepends(queue, visited) ==
    IF Len(queue) = 0 \/ startNode = Null
    THEN [queue |-> queue, visited |-> visited, assigned |-> FALSE]
    ELSE LET currentNode == queue[1]
             newQueue == Tail(queue)
             neighbors == getNeighbors(currentNode)
             unvisited(neighbor) == ~Includes(visited, neighbor)
             unvisitedNeighbors == SelectSeq(neighbors, unvisited)
         IN  [queue |-> unvisitedNeighbors \o newQueue,
              visited |-> visited \o unvisitedNeighbors,
              assigned |-> TRUE]

\* variant: the node expanded is the last of the queue
performBFSStep_PopsLast(queue, visited) ==
    IF Len(queue) = 0 \/ startNode = Null
    THEN [queue |-> queue, visited |-> visited, assigned |-> FALSE]
    ELSE LET currentNode == queue[Len(queue)]
             newQueue == SubSeq(queue, 1, Len(queue) - 1)
             neighbors == getNeighbors(currentNode)
             unvisited(neighbor) == ~Includes(visited, neighbor)
             unvisitedNeighbors == SelectSeq(neighbors, unvisited)
         IN  [queue |-> newQueue \o unvisitedNeighbors,
              visited |-> visited \o unvisitedNeighbors,
              assigned |-> TRUE]

\* performBFSStep as the closure of one render runs it: queue and visited are
\* that render's currentQueue and visitedNodes. The result is the pair of
\* sequences it hands to the two setters, or the pair it read when it returns
\* early.
performBFSStep(queue, visited) ==
    IF Len(queue) = 0 \/ startNode = Null
    THEN [queue |-> queue, visited |-> visited, assigned |-> FALSE]
    ELSE LET currentNode == queue[1]
             newQueue == Tail(queue)
             neighbors == getNeighbors(currentNode)
             unvisited(neighbor) == ~Includes(visited, neighbor)
             unvisitedNeighbors == SelectSeq(neighbors, unvisited)
         IN  [queue |-> newQueue \o unvisitedNeighbors,
              visited |-> visited \o unvisitedNeighbors,
              assigned |-> TRUE]

\* currentQueue and visitedNodes as the interval callback reads them: those of
\* the render whose effect of lines 162-168 created the interval. That is the
\* render on screen, except between the commit of a step and its effects,
\* when the interval of the render before is still the one alive.
TimerClosure ==
    IF pendingEffects # <<>>
    THEN pendingEffects[1]
    ELSE [queue |-> currentQueue, visited |-> visitedNodes]

\* the interval of lines 162-168 fires: it exists when the render that ran
\* the effect had isRunning and a non-empty queue. performBFSStep reads that
\* render's state and calls the two setters; nothing is rendered yet, and
\* updates of an earlier callback that are still unrendered are superseded.
IntervalFires ==
    /\ isRunning
    /\ Len(TimerClosure.queue) > 0
    /\ LET r == performBFSStep(TimerClosure.queue, TimerClosure.visited)
       IN  queuedStep' = IF r.assigned
                         THEN <<[queue |-> r.queue, visited |-> r.visited]>>
                         ELSE queuedStep
    /\ lastOp' = "interval"
    /\ lastArg' = Null
    /\ UNCHANGED <<nodes, edges, selectedNode, visitedNodes, currentQueue,
                   isRunning, startNode, explanation, pendingCalls,
                   pendingEffects, steps, edgesAtStart>>

\* React renders the updates the interval callback queued, in a task of its
\* own: effects still pending run first, then the new queue and visited list
\* are committed, whatever the flag is by then. The effects of this render
\* are left for a later task (RunEffects); the render is taken only when the
\* call they will issue fits the bound on calls in flight.
RenderStep(maxInflight) ==
    /\ queuedStep # <<>>
    /\ FlushPassive < maxInflight
    /\ currentQueue' = queuedStep[1].queue
    /\ visitedNodes' = queuedStep[1].visited
    /\ pendingCalls' = FlushPassive
    /\ pendingEffects' = <<[queue |-> currentQueue, visited |-> visitedNodes]>>
    /\ queuedStep' = <<>>
    /\ steps' = steps + 1
    /\ lastOp' = "step"
    /\ lastArg' = Null
    /\ UNCHANGED <<nodes, edges, selectedNode, isRunning, startNode,
                   explanation, edgesAtStart>>

\* the effects of a rendered step run: the narration call of lines 96-100 is
\* issued, the interval of the render before is cleared and, while isRunning
\* with a non-empty queue, one reading the new render is created (lines
\* 162-168)
RunEffects ==
    /\ pendingEffects # <<>>
    /\ pendingCalls' = FlushPassive
    /\ pendingEffects' = <<>>
    /\ lastOp' = "effects"
    /\ lastArg' = Null
    /\ UNCHANGED <<nodes, edges, selectedNode, visitedNodes, currentQueue,
                   isRunning, startNode, explanation, queuedStep, steps,
                   edgesAtStart>>

\* ------------------------------------------------------- specifications
NextWithin(maxNodes, maxEdges, maxInflight) ==
    \/ \E x \in Coords, y \in Coords : addNode(x, y, maxNodes)
    \/ \E nodeId \in NodeIds : handleNodeClick(nodeId, maxEdges, maxInflight)
    \/ toggleRunning
    \/ IntervalFires
    \/ RenderStep(maxInflight)
    \/ RunEffects
    \/ resetVisualization
    \/ NarrationSucceeds
    \/ NarrationFails

Next == NextWithin(MaxNodes, MaxEdges, MaxInflight)

Spec == Init /\ [][Next]_vars

\* The state reached from Init by four canvas clicks and the node clicks
\* 1,2, 1,3, 2,4: nodes 1..4 with edges (1-2), (1-3), (2-4), nothing started.
ExampleEdges ==
    <<[from |-> "1", to |-> "2"], [from |-> "1", to |-> "3"],
      [from |-> "2", to |-> "4"]>>

InitExample ==
    /\ nodes = [i \in 1..4 |-> [id |-> ToString(i), x |-> 10, y |-> 10]]
    /\ edges = ExampleEdges
    /\ selectedNode = Null
    /\ visitedNodes = <<>>
    /\ currentQueue = <<>>
    /\ isRunning = FALSE
    /\ startNode = Null
    /\ explanation = ""
    /\ pendingCalls = 0
    /\ queuedStep = <<>>
    /\ pendingEffects = <<>>
    /\ lastOp = "nodeClick"
    /\ lastArg = "4"
    /\ steps = 0
    /\ edgesAtStart = 0

NextExample == NextWithin(ExMaxNodes, ExMaxEdges, MaxInflight)

SpecExample == InitExample /\ [][NextExample]_vars

\* ------------------------------------------------------- graph vocabulary
ToSet(seq) == {seq[i] : i \in 1..Len(seq)}

NoDuplicates(seq) == \A i, j \in 1..Len(seq) : i # j => seq[i] # seq[j]

\* the nodes joined to a member of S by one edge of es, either way round
Adjacent(S, es) ==
    {es[i].to : i \in {k \in 1..Len(es) : es[k].from \in S}}
    \cup {es[i].from : i \in {k \in 1..Len(es) : es[k].to \in S}}

\* the connected component of s in the undirected graph of the edge list es
RECURSIVE Grow(_, _)
Grow(S, es) == LET T == S \cup Adjacent(S, es) IN IF T = S THEN S ELSE Grow(T, es)
Component(s, es) == Grow({s}, es)

Finished == startNode # Null /\ currentQueue = <<>>

\* ------------------------------------------------------------------- C1
\* C1: no node identifier appears twice in visitedNodes, whatever the graph
\* (duplicate edges and cycles included).
C1_NoDuplicateVisited == NoDuplicates(visitedNodes)

\* ------------------------------------------------------------------- C2
\* C2: after setStart the frontier is empty once |V| effective steps have been
\* taken (the traversal needs at most |V| steps).
C2_EmptyWithinVSteps ==
    (startNode # Null /\ steps >= Len(nodes)) => currentQueue = <<>>

\* ------------------------------------------------------------------- C3
\* C3 as stated: once the frontier is empty after setStart(s), the visited set
\* is exactly the connected component of s under the current edge list.
C3_VisitedIsCurrentComponent ==
    Finished => ToSet(visitedNodes) = Component(startNode, edges)

\* C3 amended: once the frontier is empty after setStart(s), the visited set
\* contains the component of s under the edge list as it was at setStart and
\* is contained in the component of s under the current edge list; so it is
\* exactly the component of s when no edge was added since setStart.
C3_VisitedIsComponent ==
    Finished =>
        /\ Component(startNode, SubSeq(edges, 1, edgesAtStart))
               \subseteq ToSet(visitedNodes)
        /\ ToSet(visitedNodes) \subseteq Component(startNode, edges)
        /\ (edgesAtStart = Len(edges)
               => ToSet(visitedNodes) = Component(startNode, edges))

\* a traversal that found a second node has ended on an unedited graph
C3_Witness ==
    /\ Finished
    /\ lastOp = "step"
    /\ edgesAtStart = Len(edges)
    /\ Cardinality(ToSet(visitedNodes)) >= 2

\* ------------------------------------------------------------------- C4
\* the neighbours of current that a step appends, read off the edge list from
\* its first edge to its last: the other endpoint of each edge that has
\* current as from or as to, kept when it is not in the visited sequence
RECURSIVE UnvisitedFrom(_, _, _, _)
UnvisitedFrom(i, es, current, visited) ==
    IF i > Len(es) THEN <<>>
    ELSE LET rest == UnvisitedFrom(i + 1, es, current, visited)
         IN  IF es[i].from = current /\ es[i].to \notin ToSet(visited)
             THEN <<es[i].to>> \o rest
             ELSE IF es[i].from # current /\ es[i].to = current
                     /\ es[i].from \notin ToSet(visited)
             THEN <<es[i].from>> \o rest
             ELSE rest

\* a step works on the frontier and visited sequence of the render its
\* interval was created in
C4_StepAppends ==
    lastOp' = "interval" =>
        LET frontier == TimerClosure.queue
            visited == TimerClosure.visited
            U == UnvisitedFrom(1, edges, Head(frontier), visited)
        IN  queuedStep' = <<[queue |-> Tail(frontier) \o U,
                             visited |-> visited \o U]>>

\* what the step computed is what gets committed
C4_StepCommits ==
    lastOp' = "step" =>
        /\ currentQueue' = queuedStep[1].queue
        /\ visitedNodes' = queuedStep[1].visited

C4_StepNoOp ==
    (currentQueue = <<>> \/ startNode = Null) =>
        LET r == performBFSStep(currentQueue, visitedNodes)
        IN  r.queue = currentQueue /\ r.visited = visitedNodes /\ ~r.assigned

\* nodes 1..4, edges (1-2),(1-3),(2-4), start 1: visited/frontier at setStart
\* and after each of the four steps
ExampleRun ==
    <<[visited |-> <<"1">>, queue |-> <<"1">>],
      [visited |-> <<"1", "2", "3">>, queue |-> <<"2", "3">>],
      [visited |-> <<"1", "2", "3", "4">>, queue |-> <<"3", "4">>],
      [visited |-> <<"1", "2", "3", "4">>, queue |-> <<"4">>],
      [visited |-> <<"1", "2", "3", "4">>, queue |-> <<>>]>>

OnExample == Len(nodes) = 4 /\ edges = ExampleEdges /\ startNode = "1"

\* the traversal is always at one of the five states of the run
C4_Example ==
    OnExample =>
        \E k \in 1..5 : /\ visitedNodes = ExampleRun[k].visited
                        /\ currentQueue = ExampleRun[k].queue

\* a step taken at the k-th state of the run gives the next one
C4_ExampleStep ==
    (OnExample /\ lastOp' = "interval") =>
        \E k \in 1..4 : /\ TimerClosure.visited = ExampleRun[k].visited
                        /\ TimerClosure.queue = ExampleRun[k].queue
                        /\ queuedStep'[1].visited = ExampleRun[k + 1].visited
                        /\ queuedStep'[1].queue = ExampleRun[k + 1].queue

\* C4: one step() leaves visited and frontier alone when the frontier is empty
\* or no start node is set; otherwise it removes the head of the frontier and
\* appends to frontier and visited the head's neighbours, in edge order, that
\* are not yet visited; on the example graph the four steps from start 1 give
\* [1,2,3]/[2,3], [1,2,3,4]/[3,4], frontier [4], frontier [].
C4_StepContract ==
    /\ [][C4_StepAppends /\ C4_StepCommits /\ C4_ExampleStep]_vars
    /\ [](C4_StepNoOp /\ C4_Example)

\* the second step of the example has just run
C4_Witness ==
    /\ Len(nodes) = 4 /\ edges = ExampleEdges /\ startNode = "1"
    /\ lastOp = "step" /\ steps = 2
    /\ visitedNodes = <<"1", "2", "3", "4">>
    /\ currentQueue = <<"3", "4">>

\* ------------------------------------------------------------------- C5
C5_SetStartSeeds ==
    (lastOp' = "nodeClick" /\ isRunning /\ startNode = Null) =>
        /\ startNode' = lastArg'
        /\ visitedNodes' = <<lastArg'>>
        /\ currentQueue' = <<lastArg'>>

C5_OnlySetStartSets ==
    (startNode' # startNode /\ startNode' # Null) =>
        /\ lastOp' = "nodeClick" /\ isRunning /\ startNode = Null

C5_NoReseed ==
    (startNode # Null /\ lastOp' # "reset") =>
        /\ startNode' = startNode
        /\ lastOp' # "step" => UNCHANGED <<visitedNodes, currentQueue>>
        /\ lastOp' = "step" => ~(/\ visitedNodes' = <<startNode>>
                                 /\ currentQueue' = <<startNode>>)
        /\ Len(visitedNodes') > 0 /\ visitedNodes'[1] = startNode

\* C5: a node click sets the start node only when the running flag is on and
\* no start node is chosen, and then visited = frontier = [id] and start = id;
\* from then until the next reset nothing changes the start node or seeds
\* visited/frontier again.
C5_SetStartOnce ==
    [][C5_SetStartSeeds /\ C5_OnlySetStartSets /\ C5_NoReseed]_vars

\* a node other than the start node was clicked while Running, after a step
C5_Witness ==
    /\ lastOp = "nodeClick" /\ isRunning
    /\ startNode # Null /\ lastArg # startNode
    /\ steps >= 1

\* ------------------------------------------------------------------- C6
\* C6: reset() in any state yields visited = [], frontier = [], start = null,
\* running = false, narration text = '', and leaves nodes and edges unchanged.
C6_ResetClears ==
    [][lastOp' = "reset" =>
          /\ visitedNodes' = <<>>
          /\ currentQueue' = <<>>
          /\ startNode' = Null
          /\ isRunning' = FALSE
          /\ explanation' = ""
          /\ UNCHANGED <<nodes, edges>>]_vars

\* reset has run on a traversal that had begun (its narration call is still
\* out) over a graph with an edge
C6_Witness == lastOp = "reset" /\ pendingCalls > 0 /\ Len(edges) > 0

\* ------------------------------------------------------------------- C7
C7_TogglePreserves ==
    lastOp' = "toggle" =>
        /\ isRunning' = ~isRunning
        /\ UNCHANGED <<visitedNodes, currentQueue, startNode>>

C7_NoStepWhilePaused ==
    /\ lastOp' = "step" => isRunning
    /\ (~isRunning /\ lastOp' # "reset") =>
           UNCHANGED <<visitedNodes, currentQueue, startNode>>

C7_ClickAfterResume ==
    (lastOp' = "nodeClick" /\ isRunning /\ startNode # Null) =>
        UNCHANGED <<visitedNodes, currentQueue, startNode, edges, selectedNode>>

\* C7: pausing leaves visited, frontier and start node unchanged, no step is
\* applied while the flag is off, resuming steps on from the preserved state,
\* and a node click after resuming is not taken as setStart.
C7_PausePreserves ==
    [][C7_TogglePreserves /\ C7_NoStepWhilePaused /\ C7_ClickAfterResume]_vars

\* ------------------------------------------------------------------- C8
\* C8: only the run toggle and reset() clear the running flag; no tick and no
\* emptying of the frontier changes it; when the traversal has finished the
\* flag stays on, and every further tick in that state changes neither visited
\* nor frontier.
C8_FlagClearedByUserOnly ==
    /\ [][(isRunning /\ ~isRunning') => lastOp' \in {"toggle", "reset"}]_vars
    /\ [][lastOp' \in {"interval", "step", "effects"}
              => isRunning' = isRunning]_vars
    /\ []((isRunning /\ Finished) =>
             /\ performBFSStep(currentQueue, visitedNodes).queue = currentQueue
             /\ performBFSStep(currentQueue, visitedNodes).visited = visitedNodes)
    /\ [][(isRunning /\ Finished /\ lastOp' \in {"interval", "step", "effects"})
              => UNCHANGED <<visitedNodes, currentQueue>>]_vars

\* ------------------------------------------------------------------- C9
C9_ConnectNodes ==
    (lastOp' = "nodeClick" /\ ~isRunning) =>
        IF selectedNode = Null
        THEN selectedNode' = lastArg' /\ edges' = edges
        ELSE IF selectedNode = lastArg'
        THEN selectedNode' = Null /\ edges' = edges
        ELSE /\ selectedNode' = Null
             /\ edges' = edges \o <<[from |-> selectedNode, to |-> lastArg']>>

C9_NoSelfLoop == \A i \in 1..Len(edges) : edges[i].from # edges[i].to

\* C9: with the running flag off, a node click with nothing pending records the
\* node and adds no edge; a click on the pending node adds no edge and clears
\* the selection; a click on another node appends exactly one edge
\* {from: pending, to: clicked} and clears the selection; no edge is a
\* self-loop.
C9_Connect == [][C9_ConnectNodes]_vars /\ []C9_NoSelfLoop

\* the pending node was clicked again: selection cleared, still no edge
C9_Witness ==
    /\ lastOp = "nodeClick" /\ ~isRunning
    /\ selectedNode = Null /\ edges = <<>>

\* ------------------------------------------------------------------ C10
ExpectedId(k) == <<"1", "2", "3", "4", "5", "6", "7", "8", "9", "10">>[k]

C10_IdsSequential == \A k \in 1..Len(nodes) : nodes[k].id = ExpectedId(k)

C10_NodesOnlyAppended ==
    \/ nodes' = nodes
    \/ /\ lastOp' = "addNode"
       /\ Len(nodes') = Len(nodes) + 1
       /\ SubSeq(nodes', 1, Len(nodes)) = nodes

C10_AddNodeAlwaysPossible ==
    Len(nodes) < MaxNodes => ENABLED (\E x \in Coords, y \in Coords : addNode(x, y, MaxNodes))

\* C10: the k-th addNode creates the node with identifier k, in every
\* interaction state; nodes are only ever appended, never removed or changed.
C10_SequentialIds ==
    /\ [](C10_IdsSequential /\ C10_AddNodeAlwaysPossible)
    /\ [][C10_NodesOnlyAppended]_vars

\* a second node was added while a traversal was under way
C10_Witness ==
    /\ lastOp = "addNode" /\ Len(nodes) >= 2
    /\ startNode # Null /\ isRunning

\* ------------------------------------------------------------------ C11
C11_CompletionFrame ==
    lastOp' \in {"narrationOk", "narrationFail"} =>
        UNCHANGED <<nodes, edges, visitedNodes, currentQueue, startNode,
                    isRunning, selectedNode>>

C11_FailureText ==
    lastOp' = "narrationFail" =>
        explanation' = "Unable to generate explanation at this time."

\* C11: the completion of a narration call, successful or not and whenever it
\* is delivered, changes only the explanation string; when the call throws the
\* explanation is exactly 'Unable to generate explanation at this time.'.
C11_NarrationOnlyText == [][C11_CompletionFrame /\ C11_FailureText]_vars

\* a call has failed in the middle of a run that is still on, after a step
C11_Witness ==
    /\ lastOp = "narrationFail"
    /\ isRunning /\ startNode # Null /\ steps >= 1
    /\ currentQueue # <<>>

\* ------------------------------------------------------------------ C12
\* the number of edges on a shortest path from a member of S to t, counted
\* from d; one more than the number of nodes when there is no path
RECURSIVE DistFrom(_, _, _, _)
DistFrom(S, t, es, d) ==
    IF t \in S THEN d
    ELSE LET T == S \cup Adjacent(S, es)
         IN  IF T = S THEN Len(nodes) + 1 ELSE DistFrom(T, t, es, d + 1)

Dist(s, t) == DistFrom({s}, t, edges, 0)

C12_DistanceOrder ==
    \A i, j \in 1..Len(visitedNodes) :
        i < j => Dist(startNode, visitedNodes[i]) <= Dist(startNode, visitedNodes[j])

C12_FrontierIsSuffix ==
    /\ Len(currentQueue) <= Len(visitedNodes)
    /\ currentQueue = SubSeq(visitedNodes,
                             Len(visitedNodes) - Len(currentQueue) + 1,
                             Len(visitedNodes))

\* C12: while the edge list is as it was at setStart(s), the visited sequence
\* is in breadth-first order (the distance from s never decreases along it)
\* and the frontier is the suffix of the visited sequence that has not been
\* expanded yet, in the same order.
C12_BreadthFirstOrder ==
    (startNode # Null /\ edgesAtStart = Len(edges)) =>
        C12_DistanceOrder /\ C12_FrontierIsSuffix

\* the example graph traversed from node 3: distances 0, 1, 2, 3 in visiting
\* order, node 4 still waiting
C12_Witness ==
    /\ edges = ExampleEdges /\ edgesAtStart = 3 /\ startNode = "3"
    /\ lastOp = "step"
    /\ visitedNodes = <<"3", "1", "2", "4">>
    /\ currentQueue = <<"4">>

\* ------------------------------------------------------------------ C13
C13_FrontierVisited ==
    \A i \in 1..Len(currentQueue) :
        /\ \E j \in 1..Len(visitedNodes) : visitedNodes[j] = currentQueue[i]
        /\ \E k \in 1..Len(nodes) : nodes[k].id = currentQueue[i]

C13_StartIffVisited ==
    /\ (startNode # Null) <=> (Len(visitedNodes) > 0)
    /\ Len(visitedNodes) > 0 => visitedNodes[1] = startNode

\* C13: every identifier in the frontier also occurs in the visited sequence
\* and names an existing node; the start node is set exactly when the visited
\* sequence is not empty, and it is then the first visited identifier.
C13_FrontierAndStart == C13_FrontierVisited /\ C13_StartIffVisited

\* a step has just put a newly visited node into the frontier
C13_Witness ==
    /\ lastOp = "step" /\ startNode # Null
    /\ Len(visitedNodes) >= 2
    /\ Len(currentQueue) >= 1
    /\ currentQueue[1] # startNode

\* ------------------------------------------------------------------ C14
C14_EditsOnlyWhenOff ==
    (edges' # edges \/ selectedNode' # selectedNode) =>
        ~isRunning /\ lastOp' = "nodeClick"

C14_RunningClickNoOp ==
    (lastOp' = "nodeClick" /\ isRunning /\ startNode # Null) =>
        UNCHANGED <<nodes, edges, selectedNode, visitedNodes, currentQueue,
                    isRunning, startNode, explanation, pendingCalls,
                    queuedStep, pendingEffects>>

C14_PausedClickEdits ==
    (lastOp' = "nodeClick" /\ ~isRunning /\ startNode # Null) =>
        /\ selectedNode' # selectedNode
        /\ \/ edges' = edges
           \/ /\ selectedNode \notin {Null, lastArg'}
              /\ edges' = Append(edges, [from |-> selectedNode, to |-> lastArg'])
        /\ UNCHANGED <<visitedNodes, currentQueue, startNode>>

\* C14: the edge list and the pending selection change only while the running
\* flag is off; a node click while the flag is on and a start node is chosen
\* changes nothing, so the steps of an uninterrupted run see one edge list;
\* while Paused a node click still selects or connects, with the traversal
\* state preserved.
C14_EditsOnlyWhilePaused ==
    [][C14_EditsOnlyWhenOff /\ C14_RunningClickNoOp /\ C14_PausedClickEdits]_vars

\* Paused in the middle of a run, a node click has just created an edge
C14_Witness ==
    /\ lastOp = "nodeClick" /\ ~isRunning
    /\ startNode # Null /\ currentQueue # <<>>
    /\ selectedNode = Null
    /\ Len(edges) > edgesAtStart
    /\ edges[Len(edges)].to = lastArg

\* ------------------------------------------------------------------ C15
\* C15: whenever the visited sequence is empty the explanation string is '':
\* after reset() the narration text stays empty until the next setStart, also
\* when a call issued before the reset completes after it.
C15_TextEmptyWithoutRun == visitedNodes = <<>> => explanation = ""

====
